---------------------------- MODULE Spec2Model ----------------------------
(***************************************************************************)
(* Model of the Slack thread fetcher (backend/main.go, and the earlier     *)
(* command-line version of the same pipeline).                             *)
(*                                                                         *)
(* Go strings are modelled as sequences of one-character strings, so that  *)
(* the regular expression of extractSlackLinkInfo, the split and integer   *)
(* parse of formatTimestamp and the byte-wise string comparison of the     *)
(* sort are computed character by character, as the code computes them.    *)
(***************************************************************************)
EXTENDS Integers, Sequences, FiniteSets, TLC

VARIABLES
    pc,                \* position of the handler: "idle", "fetch" (about to call
                       \* conversations.replies), "await" (call issued), "range"
    url,               \* reqPayload.URL of the request being handled
    channelID,         \* first result of extractSlackLinkInfo
    timestamp,         \* second result of extractSlackLinkInfo
    cursor,            \* getThreadMessages: cursor
    allMessages,       \* getThreadMessages: allMessages
    fetchErr,          \* getThreadMessages: the error returned ("" for nil)
    fetched,           \* handleFetchMessage: messages as getThreadMessages returned it
    messages,          \* handleFetchMessage: messages once sort.Slice has run
    idx,               \* handleFetchMessage: position of the range loop
    responseMessages,  \* handleFetchMessage: responseMessages
    httpStatus,        \* status written to the ResponseWriter (0: none yet)
    httpBody,          \* what was written as the body: an error text or "json"
    userCache,         \* the package-level map userCache
    zone,              \* offset of the process's local time zone, in seconds
    calls,             \* log: the cursor sent with each conversations.replies
                       \* call of this request (the first MaxLog calls)
    pages,             \* log: the response to each of them
    nCalls,            \* log: number of those calls (stops at MaxLog + 1)
    userCalls,         \* log: users.info calls of this request (user, ok)
    lookupErrs,        \* log: per message of the range loop, did getUserName fail
    tsArg,             \* argument of a formatTimestamp call under test
    tsOut,             \* its result
    handlers           \* handlers running at once, one per goroutine of
                       \* net/http: where each is in its range loop and in
                       \* getUserName, and its access to userCache in progress

vars == << pc, url, channelID, timestamp, cursor, allMessages, fetchErr,
           fetched, messages, idx, responseMessages, httpStatus, httpBody, userCache,
           zone, calls, pages, nCalls, userCalls, lookupErrs,
           tsArg, tsOut, handlers >>

---------------------------------------------------------------------------
(* Characters and strings *)

Digits == <<"0", "1", "2", "3", "4", "5", "6", "7", "8", "9">>
Upper == <<"A", "B", "C", "D", "E", "F", "G", "H", "I", "J", "K", "L", "M",
           "N", "O", "P", "Q", "R", "S", "T", "U", "V", "W", "X", "Y", "Z">>
Lower == <<"a", "b", "c", "d", "e", "f", "g", "h", "i", "j", "k", "l", "m",
           "n", "o", "p", "q", "r", "s", "t", "u", "v", "w", "x", "y", "z">>

\* The characters the model uses, in ascending byte order.
CharOrder == <<" ", "+", "-", ".", "/">> \o Digits \o <<":", "=", "?">>
             \o Upper \o <<"_">> \o Lower

OrdMap == [ c \in { CharOrder[i] : i \in 1..Len(CharOrder) } |->
              CHOOSE i \in 1..Len(CharOrder) : CharOrder[i] = c ]
Ord(c) == OrdMap[c]

Range(s) == { s[i] : i \in 1..Len(s) }

DigitChars == Range(Digits)                                \* [0-9]
AlnumChars == Range(Digits) \cup Range(Upper) \cup Range(Lower)  \* [A-Za-z0-9]
WorkspaceChars == AlnumChars \cup { "-" }                  \* [a-zA-Z0-9-]

IsDigit(c) == c \in DigitChars

\* Go's s < t on strings: byte-wise lexicographic order.
StrLess(s, t) ==
    \E k \in 0..Len(s) :
        /\ k <= Len(t)
        /\ \A i \in 1..k : s[i] = t[i]
        /\ \/ k = Len(s) /\ k < Len(t)
           \/ k < Len(s) /\ k < Len(t) /\ Ord(s[k + 1]) < Ord(t[k + 1])

\* s[from .. to] (1-based, inclusive), empty when to < from.
Slice(s, from, to) == [ i \in 1..(to - from + 1) |-> s[from + i - 1] ]

\* lit occurs in s at position i.
HasLit(s, i, lit) ==
    /\ i + Len(lit) - 1 <= Len(s)
    /\ \A k \in 1..Len(lit) : s[i + k - 1] = lit[k]

\* Length of the longest run of characters of the class that starts at i.
RECURSIVE RunLen(_, _, _)
RunLen(s, i, class) ==
    IF i <= Len(s) /\ s[i] \in class THEN 1 + RunLen(s, i + 1, class) ELSE 0

---------------------------------------------------------------------------
(* extractSlackLinkInfo *)

LitScheme == <<"h", "t", "t", "p", "s", ":", "/", "/">>
LitHost == <<".", "s", "l", "a", "c", "k", ".", "c", "o", "m", "/",
             "a", "r", "c", "h", "i", "v", "e", "s", "/">>
LitP == <<"/", "p">>

NoMatch == [ ok |-> FALSE, last |-> 0, sub |-> << >> ]

\* The match of the pattern
\*   https:\/\/([a-zA-Z0-9-]+)\.slack\.com\/archives\/([CG][A-Za-z0-9]+)\/p([0-9]{10})([0-9]{6})
\* that starts at position i of s, with its submatches (sub[k + 1] is Go's
\* match[k]), or NoMatch.  Neither character class contains the character
\* that follows it in the pattern, so the greedy run is the only candidate
\* for each class.  first is the set of letters the channel id may start
\* with.  The three operators follow the pattern from left to right:
\* w, c and d are where the workspace, the channel id and the digits start.
MatchDigits(s, i, w, h, c, p, d) ==
    IF d + 15 <= Len(s) /\ \A k \in 0..15 : IsDigit(s[d + k])
    THEN [ ok |-> TRUE, last |-> d + 15,
           sub |-> << Slice(s, i, d + 15), Slice(s, w, h - 1),
                      Slice(s, c, p - 1), Slice(s, d, d + 9),
                      Slice(s, d + 10, d + 15) >> ]
    ELSE NoMatch

MatchChannel(s, i, w, h, c, first) ==
    IF c <= Len(s) /\ s[c] \in first
    THEN LET cn == RunLen(s, c + 1, AlnumChars)
         IN  IF cn >= 1 /\ HasLit(s, c + 1 + cn, LitP)
             THEN MatchDigits(s, i, w, h, c, c + 1 + cn, c + 1 + cn + Len(LitP))
             ELSE NoMatch
    ELSE NoMatch

MatchAt(s, i, first) ==
    IF HasLit(s, i, LitScheme)
    THEN LET w  == i + Len(LitScheme)
             wn == RunLen(s, w, WorkspaceChars)
         IN  IF wn >= 1 /\ HasLit(s, w + wn, LitHost)
             THEN MatchChannel(s, i, w, w + wn, w + wn + Len(LitHost), first)
             ELSE NoMatch
    ELSE NoMatch

RECURSIVE FindFrom(_, _, _)
FindFrom(s, i, first) ==
    IF i > Len(s) THEN NoMatch
    ELSE LET m == MatchAt(s, i, first)
         IN  IF m.ok THEN m ELSE FindFrom(s, i + 1, first)

\* regexp.FindStringSubmatch: the leftmost match anywhere in s, or nil (<<>>).
FindStringSubmatch(s, first) == FindFrom(s, 1, first).sub

ExtractWith(link, first) ==
    LET match == FindStringSubmatch(link, first)
    IN  IF Len(match) = 5   \* Go's match[k] is match[k + 1] here
        THEN [ channelID |-> match[3],
               timestamp |-> match[4] \o <<".">> \o match[5] ]
        ELSE [ channelID |-> << >>, timestamp |-> << >> ]

\* backend/main.go
extractSlackLinkInfo(link) == ExtractWith(link, {"C", "G"})

\* the command-line version, whose pattern has (C[A-Za-z0-9]+)
extractSlackLinkInfoCLI(link) == ExtractWith(link, {"C"})

---------------------------------------------------------------------------
(* formatTimestamp *)

\* regexp.MustCompile(`\.`).Split(ts, 2): at most two parts, cut at the
\* first dot; a string without a dot is returned whole, as the only part.
SplitDot2(ts) ==
    LET dots == { i \in 1..Len(ts) : ts[i] = "." }
    IN  IF dots = {} THEN << ts >>
        ELSE LET i == CHOOSE d \in dots : \A e \in dots : d <= e
             IN  << Slice(ts, 1, i - 1), Slice(ts, i + 1, Len(ts)) >>

DigitVal(c) == Ord(c) - Ord("0")

RECURSIVE DropZeros(_)
DropZeros(ds) ==
    IF Len(ds) > 1 /\ ds[1] = "0" THEN DropZeros(Tail(ds)) ELSE ds

RECURSIVE DecimalValue(_)
DecimalValue(ds) ==
    IF ds = << >> THEN 0
    ELSE 10 * DecimalValue(Slice(ds, 1, Len(ds) - 1)) + DigitVal(ds[Len(ds)])

\* 1 << 63, the magnitude at which strconv.ParseInt(s, 10, 64) reports a
\* range error (for a negative number, the first magnitude it rejects is
\* one more).
Cutoff63 == <<"9", "2", "2", "3", "3", "7", "2", "0", "3", "6",
              "8", "5", "4", "7", "7", "5", "8", "0", "8">>

\* the decimal numeral a is at least the decimal numeral b (no leading zeros)
NumeralGeq(a, b) ==
    \/ Len(a) > Len(b)
    \/ Len(a) = Len(b) /\ ~StrLess(a, b)

\* strconv.ParseInt(s, 10, 64): an optional sign, then one or more decimal
\* digits, within the range of int64.
ParseInt(s) ==
    LET neg  == Len(s) > 0 /\ s[1] = "-"
        body == IF Len(s) > 0 /\ s[1] \in {"+", "-"} THEN Tail(s) ELSE s
        mag  == DropZeros(body)
    IN  IF body = << >> \/ \E i \in 1..Len(body) : ~IsDigit(body[i])
        THEN [ err |-> "syntax", val |-> 0 ]
        ELSE IF \/ ~neg /\ NumeralGeq(mag, Cutoff63)
                \/ neg /\ NumeralGeq(mag, Cutoff63) /\ mag # Cutoff63
        THEN [ err |-> "range", val |-> 0 ]
        ELSE [ err |-> "",
               val |-> IF neg THEN 0 - DecimalValue(mag) ELSE DecimalValue(mag) ]

Pad(n, width) ==
    [ i \in 1..width |-> Digits[((n \div (10 ^ (width - i))) % 10) + 1] ]

\* time.Unix(seconds, 0).Format("2006-01-02 15:04:05") in a zone that is
\* off seconds east of UTC (proleptic Gregorian calendar).
FormatUnix(seconds, off) ==
    LET local == seconds + off
        days  == local \div 86400
        rem   == local % 86400
        z     == days + 719468
        era   == z \div 146097
        doe   == z - era * 146097
        yoe   == (doe - doe \div 1460 + doe \div 36524 - doe \div 146096) \div 365
        doy   == doe - (365 * yoe + yoe \div 4 - yoe \div 100)
        mp    == (5 * doy + 2) \div 153
        day   == doy - (153 * mp + 2) \div 5 + 1
        month == IF mp < 10 THEN mp + 3 ELSE mp - 9
        year  == yoe + era * 400 + (IF month <= 2 THEN 1 ELSE 0)
    IN  Pad(year, 4) \o <<"-">> \o Pad(month, 2) \o <<"-">> \o Pad(day, 2)
        \o <<" ">> \o Pad(rem \div 3600, 2) \o <<":">>
        \o Pad((rem % 3600) \div 60, 2) \o <<":">> \o Pad(rem % 60, 2)

formatTimestamp(ts, off) ==
    LET parts   == SplitDot2(ts)
        seconds == ParseInt(parts[1])
    IN  IF Len(parts) < 1
        THEN [ out |-> << >>, err |-> "invalid timestamp format" ]
        ELSE IF seconds.err # ""
        THEN [ out |-> << >>, err |-> "failed to parse timestamp" ]
        ELSE [ out |-> FormatUnix(seconds.val, off), err |-> "" ]

---------------------------------------------------------------------------
(* Bounds and inputs *)

MaxMsgs == 2         \* messages a thread delivers over all its pages
MaxPageMsgs == 2     \* messages on one page
MaxLog == 2          \* conversations.replies calls the log records
NumHandlers == 2      \* handlers running at once

Min(a, b) == IF a < b THEN a ELSE b

Secs == <<"1", "7", "0", "0", "0", "0", "0", "0", "0", "0">>
Ts100 == Secs \o <<".", "0", "0", "0", "1", "0", "0">>
Ts200 == Secs \o <<".", "0", "0", "0", "2", "0", "0">>
TsBad == <<"a", "b", "c">>

\* SlackMessage values the mocked API can deliver (the fields the code reads).
MsgPool ==
    { [ Ts |-> Ts200, User |-> "U1", Text |-> "a" ],
      [ Ts |-> Ts100, User |-> "U2", Text |-> "b" ],
      [ Ts |-> Ts100, User |-> "U1", Text |-> "c" ],
      [ Ts |-> TsBad, User |-> "U2", Text |-> "d" ] }

Cursors == { "c1" }

SeqsUpTo(S, n) == UNION { [ 1..k -> S ] : k \in 0..n }

\* What one conversations.replies call can come back with: a transport
\* failure, a non-200 status, an undecodable body, or a decoded body.
RepliesResponses ==
    { [ kind |-> k, ok |-> FALSE, msgs |-> << >>, hasMore |-> FALSE,
        next |-> "", error |-> "" ] : k \in { "transport", "status", "decode" } }
    \cup
    { [ kind |-> "json", ok |-> FALSE, msgs |-> << >>, hasMore |-> FALSE,
        next |-> "", error |-> "thread_not_found" ] }
    \cup
    [ kind : { "json" }, ok : { TRUE }, msgs : SeqsUpTo(MsgPool, MaxPageMsgs),
      hasMore : BOOLEAN, next : Cursors \cup { "" }, error : { "" } ]

RealNameOf(u) == IF u = "U1" THEN "Alice" ELSE "Bob"

\* What one users.info call for user u can come back with.
UserResponses(u) ==
    { [ kind |-> k, ok |-> FALSE, realName |-> "" ] :
        k \in { "transport", "status", "decode" } }
    \cup
    { [ kind |-> "json", ok |-> FALSE, realName |-> "" ],
      [ kind |-> "json", ok |-> TRUE, realName |-> RealNameOf(u) ] }

ZoneOffsets == { 0, 32400 }

LinkG == LitScheme \o <<"w", "s">> \o LitHost \o <<"G", "2", "A">> \o LitP
         \o Secs \o <<"0", "0", "0", "1", "0", "0">>
LinkC == LitScheme \o <<"w", "s">> \o LitHost \o <<"C", "1", "2">> \o LitP
         \o Secs \o <<"0", "0", "0", "2", "0", "0">>
LinkD == LitScheme \o <<"w", "s">> \o LitHost \o <<"D", "1", "2">> \o LitP
         \o Secs \o <<"0", "0", "0", "2", "0", "0">>

\* URLs the requests to the server carry.
RequestURLs == { << >>, LinkG, LinkD, <<"a", "b", "c">> }

---------------------------------------------------------------------------
(* getThreadMessages *)

\* The cursor parameter of the request the loop builds (absent when "").
RequestCursor(cur) == cur

\* LoopBody with the page's messages assigned instead of appended.
LoopBodyLastPage(cur, all, resp) ==
    IF resp.kind # "json" \/ ~resp.ok
    THEN [ returned |-> TRUE, result |-> << >>, err |-> "failed",
           cursor |-> cur, allMessages |-> all ]
    ELSE [ returned |-> resp.next = "",
           result |-> IF resp.next = "" THEN resp.msgs ELSE << >>,
           err |-> "", cursor |-> resp.next, allMessages |-> resp.msgs ]

\* LoopBody returning what it has accumulated along with the error.
LoopBodyPartial(cur, all, resp) ==
    IF resp.kind # "json" \/ ~resp.ok
    THEN [ returned |-> TRUE, result |-> all, err |-> "failed",
           cursor |-> cur, allMessages |-> all ]
    ELSE [ returned |-> resp.next = "",
           result |-> IF resp.next = "" THEN all \o resp.msgs ELSE << >>,
           err |-> "", cursor |-> resp.next, allMessages |-> all \o resp.msgs ]

\* One iteration of the for loop, on the response resp to its request.
\* returned: the function returns in this iteration, with (result, err);
\* otherwise the loop goes on with cursor and allMessages as given.
LoopBody(cur, all, resp) ==
    LET fail(e) == [ returned |-> TRUE, result |-> << >>, err |-> e,
                     cursor |-> cur, allMessages |-> all ]
    IN  IF resp.kind = "transport" THEN fail("failed to call slack api")
        ELSE IF resp.kind = "status"
        THEN fail("slack api request failed with status")
        ELSE IF resp.kind = "decode"
        THEN fail("failed to decode slack api response")
        ELSE IF ~resp.ok THEN fail("slack api returned an error")
        ELSE LET all2 == all \o resp.msgs
             IN  [ returned |-> resp.next = "",
                   result |-> IF resp.next = "" THEN all2 ELSE << >>,
                   err |-> "", cursor |-> resp.next, allMessages |-> all2 ]

---------------------------------------------------------------------------
(* handleFetchMessage *)

\* SortSlice leaving the slice as it was delivered.
SortSliceNone(ms) == { ms }

\* sort.Slice(messages, less) with less(i, j) = messages[i].Ts < messages[j].Ts.
\* sort.Slice documents that it is not stable: the result is some
\* permutation of the slice that is ascending under less, and which one is
\* left to the implementation (the current one sorts up to 12 elements by
\* insertion and longer slices by pattern-defeating quicksort, which moves
\* its pivot across equal elements).  The threads of this model are shorter
\* than that, so the operator is the documented contract, not the algorithm.
SortSlice(ms) ==
    { p \in { [ i \in 1..Len(ms) |-> ms[f[i]] ] : f \in Permutations(1..Len(ms)) } :
        \A i, j \in 1..Len(ms) : i < j => ~StrLess(p[j].Ts, p[i].Ts) }

\* Precheck without the check of what extractSlackLinkInfo returned.
PrecheckNoFormat(method, bodyOK, u) ==
    LET info == extractSlackLinkInfo(u)
    IN  IF method # "POST"
        THEN [ status |-> 405, body |-> "Invalid request method",
               channelID |-> << >>, timestamp |-> << >> ]
        ELSE IF ~bodyOK \/ u = << >>
        THEN [ status |-> 400, body |-> "Failed to parse request body",
               channelID |-> << >>, timestamp |-> << >> ]
        ELSE [ status |-> 0, body |-> "", channelID |-> info.channelID,
               timestamp |-> info.timestamp ]

\* The checks of the handler before the fetch: status 0 means go on.
Precheck(method, bodyOK, u) ==
    LET info == extractSlackLinkInfo(u)
        stop(st, body) == [ status |-> st, body |-> body,
                            channelID |-> << >>, timestamp |-> << >> ]
    IN  IF method # "POST" THEN stop(405, "Invalid request method")
        ELSE IF ~bodyOK THEN stop(400, "Failed to parse request body")
        ELSE IF u = << >> THEN stop(400, "Slack URL is required")
        ELSE IF info.channelID = << >> \/ info.timestamp = << >>
        THEN stop(400, "Invalid Slack message URL format")
        ELSE [ status |-> 0, body |-> "", channelID |-> info.channelID,
               timestamp |-> info.timestamp ]

\* getUserName storing the name it resolved: userCache[userID] = RealName
\* before the return.
getUserNameStore(cache, userID, resp) ==
    IF userID \in DOMAIN cache
    THEN [ name |-> cache[userID], err |-> "", called |-> FALSE, cache |-> cache ]
    ELSE IF resp.kind = "json" /\ resp.ok
    THEN [ name |-> resp.realName, err |-> "", called |-> TRUE,
           cache |-> [ k \in DOMAIN cache \cup { userID } |->
                         IF k = userID THEN resp.realName ELSE cache[k] ] ]
    ELSE [ name |-> "", err |-> "failed", called |-> TRUE, cache |-> cache ]

\* getUserName(userID), on the response resp to its users.info call if it
\* issues one. called: it issued the call.  The function only reads userCache.
getUserName(cache, userID, resp) ==
    IF userID \in DOMAIN cache
    THEN [ name |-> cache[userID], err |-> "", called |-> FALSE, cache |-> cache ]
    ELSE LET fail(e) == [ name |-> "", err |-> e, called |-> TRUE, cache |-> cache ]
         IN  IF resp.kind = "transport" THEN fail("failed to call slack api")
             ELSE IF resp.kind = "status"
             THEN fail("slack api request failed with status")
             ELSE IF resp.kind = "decode"
             THEN fail("failed to decode slack api response")
             ELSE IF ~resp.ok THEN fail("slack api returned an error")
             ELSE [ name |-> resp.realName, err |-> "", called |-> TRUE,
                    cache |-> cache ]

\* ResponseEntry without the fallbacks: what the failed calls returned.
ResponseEntryNoFallback(msg, lookup, off) ==
    [ Timestamp |-> formatTimestamp(msg.Ts, off).out,
      UserName  |-> lookup.name,
      Text      |-> msg.Text ]

\* The body of the range loop for msg: the entry appended to responseMessages.
ResponseEntry(msg, lookup, off) ==
    LET formatted == formatTimestamp(msg.Ts, off)
    IN  [ Timestamp |-> IF formatted.err # "" THEN msg.Ts ELSE formatted.out,
          UserName  |-> IF lookup.err # "" THEN "Unknown" ELSE lookup.name,
          Text      |-> msg.Text ]

NoTest == /\ tsArg = << >>
          /\ tsOut = [ out |-> << >>, err |-> "" ]

\* The goroutines net/http runs handleFetchMessage on.
Handlers == 1..NumHandlers

\* The users the messages of a thread can come from.
Users == { m.User : m \in MsgPool }

\* A goroutine with no request: pc is "idle", "range" (in the range loop,
\* between two calls of getUserName), "lookup" (reading userCache), "call"
\* (users.info issued) or "store" (writing userCache); users are the posters
\* of the sorted messages, idx the position of the loop, access the access
\* to the map in progress: "none", "read" or "write".
IdleHandler == [ pc |-> "idle", users |-> << >>, idx |-> 1, access |-> "none" ]

\* Everything but pc, url, zone and the formatTimestamp call under test, as
\* it is when the process starts.
Fresh ==
    /\ handlers = [ g \in Handlers |-> IdleHandler ]
    /\ channelID = << >>
    /\ timestamp = << >>
    /\ cursor = ""
    /\ allMessages = << >>
    /\ fetchErr = ""
    /\ fetched = << >>
    /\ messages = << >>
    /\ idx = 1
    /\ responseMessages = << >>
    /\ httpStatus = 0
    /\ httpBody = ""
    /\ userCache = << >>
    /\ calls = << >>
    /\ pages = << >>
    /\ nCalls = 0
    /\ userCalls = << >>
    /\ lookupErrs = << >>

\* The server starts idle, with an empty cache; its local zone is UTC.
Init ==
    /\ pc = "idle"
    /\ url = << >>
    /\ zone = 0
    /\ Fresh
    /\ NoTest

\* The server accepts a request (of any number of requests, one after the
\* other): the handler runs up to the call of getThreadMessages, or answers
\* with an error.  Everything but userCache is local to the request.
HandleRequest(method, bodyOK, u) ==
    LET pre == Precheck(method, bodyOK, u)
    IN  /\ pc = "idle"
        /\ url' = u
        /\ channelID' = pre.channelID
        /\ timestamp' = pre.timestamp
        /\ httpStatus' = pre.status
        /\ httpBody' = pre.body
        /\ pc' = IF pre.status = 0 THEN "fetch" ELSE "idle"
        /\ cursor' = ""
        /\ allMessages' = << >>
        /\ fetchErr' = ""
        /\ fetched' = << >>
        /\ messages' = << >>
        /\ idx' = 1
        /\ responseMessages' = << >>
        /\ calls' = << >>
        /\ pages' = << >>
        /\ nCalls' = 0
        /\ userCalls' = << >>
        /\ lookupErrs' = << >>
        /\ UNCHANGED << userCache, zone, handlers, tsArg, tsOut >>

\* The loop of getThreadMessages builds its request and issues the call.
SendRequest ==
    /\ pc = "fetch"
    /\ pc' = "await"
    /\ calls' = IF Len(calls) < MaxLog THEN Append(calls, RequestCursor(cursor))
                ELSE calls
    /\ nCalls' = Min(nCalls + 1, MaxLog + 1)
    /\ UNCHANGED << url, channelID, timestamp, cursor, allMessages, fetchErr,
                    fetched, messages, idx, responseMessages, httpStatus,
                    httpBody, userCache, zone, handlers, pages, userCalls, lookupErrs,
                    tsArg, tsOut >>

\* The response resp to the call arrives and the iteration goes on with
\* it; when getThreadMessages returns, the handler answers with the error,
\* or sorts the messages and enters its range loop.
ReceivePage(resp) ==
    LET r == LoopBody(cursor, allMessages, resp)
    IN  /\ pc = "await"
        /\ Len(allMessages) + Len(resp.msgs) <= MaxMsgs
        /\ pages' = IF Len(pages) < MaxLog
                    THEN Append(pages, [ kind |-> resp.kind, ok |-> resp.ok,
                                         msgs |-> resp.msgs, next |-> resp.next ])
                    ELSE pages
        /\ cursor' = r.cursor
        /\ allMessages' = r.allMessages
        /\ fetchErr' = r.err
        /\ IF ~r.returned
           THEN /\ pc' = "fetch"
                /\ UNCHANGED << fetched, messages, httpStatus, httpBody >>
           ELSE IF r.err # ""
           THEN /\ fetched' = r.result
                /\ messages' = r.result
                /\ httpStatus' = 500
                /\ httpBody' = "Error getting messages"
                /\ pc' = "idle"
           ELSE /\ fetched' = r.result
                /\ messages' \in SortSlice(r.result)
                /\ pc' = "range"
                /\ UNCHANGED << httpStatus, httpBody >>
        /\ UNCHANGED << url, channelID, timestamp, idx, responseMessages,
                        userCache, zone, handlers, calls, nCalls, userCalls, lookupErrs,
                        tsArg, tsOut >>

\* One iteration of the range loop over the sorted messages.
ResolveMessage(resp) ==
    LET msg    == messages[idx]
        lookup == getUserName(userCache, msg.User, resp)
    IN  /\ pc = "range"
        /\ idx <= Len(messages)
        /\ userCache' = lookup.cache
        /\ responseMessages' =
               Append(responseMessages, ResponseEntry(msg, lookup, zone))
        /\ idx' = idx + 1
        /\ userCalls' = IF lookup.called
                        THEN Append(userCalls, [ user |-> msg.User,
                                                 ok |-> lookup.err = "" ])
                        ELSE userCalls
        /\ lookupErrs' = Append(lookupErrs, lookup.err # "")
        /\ UNCHANGED << pc, url, channelID, timestamp, cursor,
                        allMessages, fetchErr, fetched, messages, httpStatus,
                        httpBody, zone, handlers, calls, pages, nCalls, tsArg, tsOut >>

\* After the range loop: the JSON response is written.
WriteResponse ==
    /\ pc = "range"
    /\ idx > Len(messages)
    /\ httpStatus' = 200
    /\ httpBody' = "json"
    /\ pc' = "idle"
    /\ UNCHANGED << url, channelID, timestamp, cursor, allMessages,
                    fetchErr, fetched, messages, idx, responseMessages,
                    userCache, zone, handlers, calls, pages, nCalls, userCalls,
                    lookupErrs, tsArg, tsOut >>

Request == \E method \in { "POST", "GET" }, bodyOK \in BOOLEAN, u \in RequestURLs :
               HandleRequest(method, bodyOK, u)
Receive == \E resp \in RepliesResponses : ReceivePage(resp)
Resolve == /\ pc = "range"
           /\ idx <= Len(messages)
           /\ \E resp \in UserResponses(messages[idx].User) : ResolveMessage(resp)

Next == Request \/ SendRequest \/ Receive \/ Resolve \/ WriteResponse

Spec == Init /\ [][Next]_vars

---------------------------------------------------------------------------
(* extractSlackLinkInfo and formatTimestamp on their own *)

Sixteen == Secs \o <<"0", "0", "0", "1", "0", "0">>

\* Strings around the permalink shape: with and without text before and
\* after it, a wrong scheme, an empty or odd workspace, channel ids that
\* start with C, G and D, or are too short, and 15, 16 and 17 digits.
LinkInputs ==
    { pre \o scheme \o ws \o LitHost \o ch \o LitP \o ds \o post :
        pre \in { << >>, <<"x">> },
        scheme \in { LitScheme, <<"h", "t", "t", "p", ":", "/", "/">> },
        ws \in { <<"w", "s">>, <<"w", "-", "1">>, << >>, <<"w", "_">> },
        ch \in { <<"C", "1", "2">>, <<"G", "2", "A">>, <<"D", "1", "2">>,
                 <<"C">>, <<"C", "_", "1">> },
        ds \in { Sixteen, Slice(Sixteen, 1, 15), Sixteen \o <<"7">> },
        post \in { << >>, <<"?", "x", "=", "1">> } }

InitLink ==
    /\ pc = "parse"
    /\ url \in LinkInputs
    /\ zone = 0
    /\ Fresh
    /\ NoTest

\* extractSlackLinkInfo(url) of backend/main.go
ParseLink ==
    /\ pc = "parse"
    /\ channelID' = extractSlackLinkInfo(url).channelID
    /\ timestamp' = extractSlackLinkInfo(url).timestamp
    /\ pc' = "parsed"
    /\ UNCHANGED << url, cursor, allMessages, fetchErr, fetched, messages, idx,
                    responseMessages, httpStatus, httpBody, userCache, zone, handlers,
                    calls, pages, nCalls, userCalls, lookupErrs, tsArg, tsOut >>

\* extractSlackLinkInfo(url) of the command-line version
ParseLinkCLI ==
    /\ pc = "parse"
    /\ channelID' = extractSlackLinkInfoCLI(url).channelID
    /\ timestamp' = extractSlackLinkInfoCLI(url).timestamp
    /\ pc' = "parsedCLI"
    /\ UNCHANGED << url, cursor, allMessages, fetchErr, fetched, messages, idx,
                    responseMessages, httpStatus, httpBody, userCache, zone, handlers,
                    calls, pages, nCalls, userCalls, lookupErrs, tsArg, tsOut >>

NextLink == ParseLink \/ ParseLinkCLI

SpecLink == InitLink /\ [][NextLink]_vars

\* A magnitude outside int64 with either sign.
TooBig == <<"9", "2", "2", "3", "3", "7", "2", "0", "3", "6",
            "8", "5", "4", "7", "7", "5", "8", "0", "9">>

\* Timestamp strings: an optional sign, an integer part that is empty, a
\* number, not a number or out of range, and then nothing, or a dot and more.
TsInputs ==
    { sign \o int \o rest :
        sign \in { << >>, <<"+">>, <<"-">> },
        int \in { << >>, <<"0">>, <<"1", "7">>, Secs, <<"a", "b", "c">>,
                  <<"1", "a">>, <<"0", "0", "7">>, TooBig },
        rest \in { << >>, <<".">>, <<".", "0", "0", "0", "1", "0", "0">>,
                   <<".", "5", ".", "5">>, <<".", "x">> } }

InitTs ==
    /\ pc = "format"
    /\ url = << >>
    /\ zone \in ZoneOffsets
    /\ Fresh
    /\ tsArg \in TsInputs
    /\ tsOut = [ out |-> << >>, err |-> "" ]

\* formatTimestamp(tsArg)
FormatTs ==
    /\ pc = "format"
    /\ tsOut' = formatTimestamp(tsArg, zone)
    /\ pc' = "formatted"
    /\ UNCHANGED << url, channelID, timestamp, cursor, allMessages, fetchErr,
                    fetched, messages, idx, responseMessages, httpStatus,
                    httpBody, userCache, zone, handlers, calls, pages, nCalls, userCalls,
                    lookupErrs, tsArg >>

NextTs == FormatTs

SpecTs == InitTs /\ [][NextTs]_vars

\* The server with the loop of getThreadMessages always running on: it
\* issues its next call, and the API answers every call.
FairSpec == Spec /\ WF_vars(SendRequest) /\ WF_vars(Receive)

---------------------------------------------------------------------------
(* The server handling requests at once: http.ListenAndServe runs each
   handleFetchMessage on a goroutine of its own.  All a handler has is local
   to its goroutine, but for the package-level userCache.  An access to the
   map takes time: it begins in one step and ends in a later one. *)

\* The variables of the one-handler-at-a-time specifications.
requestVars == << pc, url, channelID, timestamp, cursor, allMessages, fetchErr,
                  fetched, messages, idx, responseMessages, httpStatus,
                  httpBody, zone, calls, pages, nCalls, userCalls, lookupErrs,
                  tsArg, tsOut >>

InitServe ==
    /\ pc = "serve"
    /\ url = << >>
    /\ zone = 0
    /\ Fresh
    /\ NoTest

\* Goroutine g is given a request: its handler parses the URL, fetches and
\* sorts the messages, and comes to its range loop over messages posted by us.
Accept(g, us) ==
    /\ handlers[g].pc = "idle"
    /\ handlers' = [ handlers EXCEPT ![g] = [ pc |-> "range", users |-> us,
                                              idx |-> 1, access |-> "none" ] ]
    /\ UNCHANGED << requestVars, userCache >>

\* The loop of g calls getUserName(msg.User), which begins by reading the map.
EnterGetUserName(g) ==
    LET h == handlers[g]
    IN  /\ h.pc = "range"
        /\ h.idx <= Len(h.users)
        /\ handlers' = [ handlers EXCEPT ![g] = [ h EXCEPT !.pc = "lookup",
                                                           !.access = "read" ] ]
        /\ UNCHANGED << requestVars, userCache >>

\* The access of g to the map ends.  A read that found no entry goes on to
\* the call of users.info; after a read that found one, or a write,
\* getUserName returns and the loop goes to its next message.
EndAccess(g) ==
    LET h == handlers[g]
    IN  /\ h.access # "none"
        /\ handlers' = [ handlers EXCEPT ![g] =
               IF h.access = "read" /\ h.users[h.idx] \notin DOMAIN userCache
               THEN [ h EXCEPT !.pc = "call", !.access = "none" ]
               ELSE [ h EXCEPT !.pc = "range", !.idx = h.idx + 1,
                               !.access = "none" ] ]
        /\ UNCHANGED << requestVars, userCache >>

\* The response resp to the users.info call of g arrives, and getUserName
\* runs on from its miss to its return; it writes the map if the cache it
\* leaves is not the cache it found.
ReceiveUserInfo(g, resp) ==
    LET h    == handlers[g]
        u    == h.users[h.idx]
        seen == [ k \in DOMAIN userCache \ { u } |-> userCache[k] ]
        r    == getUserName(seen, u, resp)
    IN  /\ h.pc = "call"
        /\ IF r.cache # seen
           THEN /\ userCache' = [ k \in DOMAIN userCache \cup { u } |->
                                   IF k = u THEN r.cache[u] ELSE userCache[k] ]
                /\ handlers' = [ handlers EXCEPT ![g] =
                                   [ h EXCEPT !.pc = "store", !.access = "write" ] ]
           ELSE /\ handlers' = [ handlers EXCEPT ![g] =
                                   [ h EXCEPT !.pc = "range", !.idx = h.idx + 1 ] ]
                /\ UNCHANGED userCache
        /\ UNCHANGED requestVars

\* The range loop of g is over: the response is written and the handler returns.
Finish(g) ==
    /\ handlers[g].pc = "range"
    /\ handlers[g].idx > Len(handlers[g].users)
    /\ handlers' = [ handlers EXCEPT ![g] = IdleHandler ]
    /\ UNCHANGED << requestVars, userCache >>

Accepts == \E g \in Handlers, us \in SeqsUpTo(Users, MaxMsgs) : Accept(g, us)
Enters == \E g \in Handlers : EnterGetUserName(g)
Ends == \E g \in Handlers : EndAccess(g)
Answers == \E g \in Handlers :
               /\ handlers[g].pc = "call"
               /\ \E resp \in UserResponses(handlers[g].users[handlers[g].idx]) :
                      ReceiveUserInfo(g, resp)
Finishes == \E g \in Handlers : Finish(g)

NextServe == Accepts \/ Enters \/ Ends \/ Answers \/ Finishes

SpecServe == InitServe /\ [][NextServe]_vars

---------------------------------------------------------------------------
(* Properties *)

RECURSIVE ConcatPages(_)
ConcatPages(log) ==
    IF log = << >> THEN << >>
    ELSE ConcatPages(Slice(log, 1, Len(log) - 1)) \o log[Len(log)].msgs

PageOK(c) == c.kind = "json" /\ c.ok

\* getThreadMessages has returned without error to the handler
FetchSucceeded == pc = "range" \/ httpStatus = 200

\* the log holds every conversations.replies call of the request
LogComplete == nCalls <= MaxLog

\* C1: as long as the pages are successful, getThreadMessages issues one
\* call per page, the first without a cursor and each later one with the
\* next_cursor of the response before it; no call follows a response whose
\* next_cursor is empty; and what it returns is the concatenation of the
\* pages' messages in page order.
C1_PaginationConcatenates ==
    LogComplete =>
        /\ Len(calls) = nCalls
        /\ Len(pages) = IF pc = "await" THEN nCalls - 1 ELSE nCalls
        /\ \A i \in 1..Len(calls) :
               calls[i] = IF i = 1 THEN "" ELSE pages[i - 1].next
        /\ \A i \in 1..(Len(calls) - 1) : PageOK(pages[i]) /\ pages[i].next # ""
        /\ pc = "fetch" /\ pages # << >> =>
               PageOK(pages[Len(pages)]) /\ pages[Len(pages)].next # ""
        /\ FetchSucceeded =>
               /\ pages # << >>
               /\ PageOK(pages[Len(pages)])
               /\ pages[Len(pages)].next = ""
               /\ fetched = ConcatPages(pages)

\* C1 witness: a fetch of two pages with messages on both has returned.
C1_Witness ==
    /\ FetchSucceeded
    /\ nCalls = 2
    /\ pages[1].msgs # << >>
    /\ pages[2].msgs # << >>
    /\ calls = << "", "c1" >>
    /\ Len(fetched) = 2

\* C2: a page that fails makes getThreadMessages return an error and no
\* messages, also after pages that delivered some; the handler answers 500
\* and puts no message in a response.
C2_NoPartialResult ==
    /\ LogComplete /\ pages # << >> /\ ~PageOK(pages[Len(pages)]) => fetchErr # ""
    /\ fetchErr # "" =>
           /\ fetched = << >>
           /\ messages = << >>
           /\ responseMessages = << >>
           /\ httpStatus = 500
           /\ httpBody = "Error getting messages"
           /\ pc = "idle"

\* C2 witness: the second page failed after the first delivered messages.
C2_Witness ==
    /\ fetchErr # ""
    /\ nCalls = 2
    /\ pages[1].msgs # << >>
    /\ ~PageOK(pages[2])
    /\ allMessages # << >>

\* The shape https://<workspace>.slack.com/archives/<channelId>/p<16 digits>,
\* channelId starting with C or G: the pattern matching the whole string.
IsPermalinkShape(s) ==
    LET m == MatchAt(s, 1, { "C", "G" })
    IN  m.ok /\ m.last = Len(s)

\* <10 digits>.<6 digits>
IsTsForm(t) ==
    /\ Len(t) = 17
    /\ t[11] = "."
    /\ \A i \in (1..17) \ { 11 } : IsDigit(t[i])

\* C3: extractSlackLinkInfo returns a channel id and a timestamp made of the
\* first 10 and last 6 of the 16 digits for every string of the permalink
\* shape, and two empty strings for every other string.
C3_ParseExactShape ==
    pc = "parsed" =>
        IF IsPermalinkShape(url)
        THEN /\ channelID # << >>
             /\ IsTsForm(timestamp)
             /\ timestamp = Slice(url, Len(url) - 15, Len(url) - 6) \o <<".">>
                            \o Slice(url, Len(url) - 5, Len(url))
        ELSE channelID = << >> /\ timestamp = << >>

ParseFails(u) == extractSlackLinkInfo(u).channelID = << >>

\* C4: while the request being handled carries a URL that does not parse,
\* no conversations.replies call and no users.info call has been issued,
\* the handler is not past its checks, and what it reports is an error of
\* the request; the invalid-URL error is reported for such URLs only.
C4_NoCallOnParseFailure ==
    /\ ParseFails(url) =>
           /\ pc = "idle"
           /\ nCalls = 0
           /\ calls = << >>
           /\ pages = << >>
           /\ userCalls = << >>
           /\ httpStatus \in { 0, 400, 405 }
    /\ httpBody = "Invalid Slack message URL format" =>
           ParseFails(url) /\ httpStatus = 400

\* C4 witness: a request with a link to a D channel was answered.
C4_Witness ==
    /\ url = LinkD
    /\ httpStatus = 400
    /\ httpBody = "Invalid Slack message URL format"

IsPermutationOf(a, b) ==
    /\ Len(a) = Len(b)
    /\ \E f \in Permutations(1..Len(b)) : a = [ i \in 1..Len(b) |-> b[f[i]] ]

\* C5: of a fetched thread, the messages the handler goes through are a
\* permutation of the fetched ones in which no message has a raw timestamp
\* lexically less than that of the message before it, and the entries of
\* the response are emitted in that order.
C5_EmittedAscending ==
    FetchSucceeded =>
        /\ IsPermutationOf(messages, fetched)
        /\ \A i \in 1..(Len(messages) - 1) :
               ~StrLess(messages[i + 1].Ts, messages[i].Ts)
        /\ Len(responseMessages) = idx - 1
        /\ \A i \in 1..Len(responseMessages) :
               responseMessages[i].Text = messages[i].Text
        /\ httpStatus = 200 => Len(responseMessages) = Len(messages)

\* C5 witness: the response is out for a thread whose pages delivered a
\* later message before an earlier one.
C5_Witness ==
    /\ httpStatus = 200
    /\ Len(fetched) = 2
    /\ nCalls = 2
    /\ StrLess(fetched[2].Ts, fetched[1].Ts)

\* C6: the response of a fetched thread has one entry per fetched message
\* whichever lookups and formattings failed; each entry has the text of its
\* message, "Unknown" as the name if its lookup failed and the looked-up name
\* if not, the raw timestamp if its formatting failed and the formatted one
\* if not.
C6_PerMessageFallback ==
    FetchSucceeded =>
        /\ Len(lookupErrs) = Len(responseMessages)
        /\ httpStatus = 200 => Len(responseMessages) = Len(fetched)
        /\ \A i \in 1..Len(responseMessages) :
               LET e == responseMessages[i]
                   f == formatTimestamp(messages[i].Ts, zone)
               IN  /\ e.Text = messages[i].Text
                   /\ e.UserName = IF lookupErrs[i] THEN "Unknown"
                                   ELSE RealNameOf(messages[i].User)
                   /\ e.Timestamp = IF f.err # "" THEN messages[i].Ts ELSE f.out
                   /\ f.err = "" => e.Timestamp # messages[i].Ts

\* C6 witness: a response of two entries, the lookup of the first failed
\* and that of the second did not, the timestamp of one formatted and that
\* of the other not.
C6_Witness ==
    /\ httpStatus = 200
    /\ lookupErrs = << TRUE, FALSE >>
    /\ responseMessages[1].UserName = "Unknown"
    /\ responseMessages[2].UserName # "Unknown"
    /\ responseMessages[1].Timestamp # messages[1].Ts
    /\ responseMessages[2].Timestamp = TsBad

\* C7: a user id that getUserName has resolved with a users.info call is in
\* userCache from then on, and no later users.info call is issued for it.
C7_ResolvedOnceNeverRefetched ==
    \A i \in 1..Len(userCalls) :
        userCalls[i].ok =>
            /\ userCalls[i].user \in DOMAIN userCache
            /\ \A j \in (i + 1)..Len(userCalls) :
                   userCalls[j].user # userCalls[i].user

HasDot(t) == \E i \in 1..Len(t) : t[i] = "."

\* C8: formatTimestamp succeeds exactly on the inputs <integer>.<rest>: it
\* fails when there is no dot and when what is before the first dot is not
\* an integer.
C8_FailsWithoutDot ==
    pc = "formatted" =>
        (tsOut.err = "" <=>
             HasDot(tsArg) /\ ParseInt(SplitDot2(tsArg)[1]).err = "")

\* C9: the sort is stable and idempotent: messages with equal timestamps
\* keep the order in which they were fetched, and a thread fetched in
\* ascending order is left as it is.
C9_SortStableIdempotent ==
    FetchSucceeded =>
        /\ \E f \in Permutations(1..Len(fetched)) :
               /\ messages = [ i \in 1..Len(fetched) |-> fetched[f[i]] ]
               /\ \A i, j \in 1..Len(fetched) :
                      i < j /\ messages[i].Ts = messages[j].Ts => f[i] < f[j]
        /\ (\A i \in 1..(Len(fetched) - 1) :
                ~StrLess(fetched[i + 1].Ts, fetched[i].Ts)) => messages = fetched

\* C10: every call of getThreadMessages returns.
C10_FetchReturns == (pc = "fetch") ~> (pc \notin { "fetch", "await" })

\* C11: with handlers running at once, no state has one handler writing
\* userCache while another handler reads or writes it.
C11_NoConflictingCacheAccess ==
    \A g1, g2 \in Handlers :
        g1 # g2 => ~(/\ handlers[g1].access = "write"
                     /\ handlers[g2].access # "none")

\* Two handlers are inside getUserName for the same user at once, both at the
\* map, one of them with a call of getUserName already behind it.
C11_Witness ==
    \E g1, g2 \in Handlers :
        /\ g1 # g2
        /\ handlers[g1].idx > 1
        /\ handlers[g1].access = "read"
        /\ handlers[g2].access = "read"
        /\ handlers[g1].users[handlers[g1].idx] = handlers[g2].users[handlers[g2].idx]

===========================================================================
